---- MODULE Spec2Model ----
(***************************************************************************)
(* Model of the gtscio/logging connectors.                                 *)
(*                                                                         *)
(*   MultiLoggingConnector  (logging-models/src/connectors)                *)
(*   LoggingService         (logging-service/src)                          *)
(*                                                                         *)
(* Optional values (x?: T) are modelled as sets: {} is undefined and {v}   *)
(* is the value v.  Promises are modelled by an outcome record whose kind  *)
(* is "none" (not called), "pending", "ok" (fulfilled) or "err" (rejected).*)
(* Asynchronous methods are split at their await points; everything that   *)
(* runs synchronously between two awaits is one action.                    *)
(***************************************************************************)
EXTENDS Integers, Sequences, FiniteSets, TLC

VARIABLES
    loggingConnectors,  \* multiplexer id -> its _loggingConnectors (sequence of connector ids)
    levels,             \* multiplexer id -> its _levels
    clock,              \* last value Date.now() returned
    op,                 \* the multiplexer call in flight: "none", "log" or "query"
    requestContext,     \* the requestContext argument of the call in flight
    logEntry,           \* the logEntry argument (a shared, mutable object)
    ts0,                \* logEntry.ts as it was when the caller made the call
    outcome,            \* connector id -> promise of its log/query call
    calls,              \* connector id -> number of times its log/query was invoked
    seenTs,             \* connector id -> logEntry.ts as the connector saw it when invoked
    probe,              \* multiplexer id -> index of the for..of loop in query
    svcOp,              \* the LoggingService call in flight: "none", "log" or "query"
    svcParams,          \* the level/source/timeStart/timeEnd/cursor/pageSize arguments
    connectorCalls,     \* number of times the service invoked _connectors.logging
    connectorArgs,      \* the arguments _connectors.logging.query received
    connectorOutcome,   \* promise of the wrapped connector's call
    svcOutcome          \* promise of the service call

vars == <<loggingConnectors, levels, clock, op, requestContext, logEntry, ts0,
          outcome, calls, seenTs, probe,
          svcOp, svcParams, connectorCalls, connectorArgs, connectorOutcome, svcOutcome>>

multiVars == <<loggingConnectors, levels, clock, op, ts0, outcome, calls, seenTs, probe>>
svcVars == <<svcOp, svcParams, connectorCalls, connectorArgs, connectorOutcome, svcOutcome>>

(***************************************************************************)
(* Bounds of the model.                                                    *)
(***************************************************************************)
\* The outer multiplexer is built from 1..MaxSubs connector types.
MaxSubs == 3
\* A nested multiplexer is built from InnerSubs connector types.
InnerSubs == 2
\* Date.now() returns values in 1..MaxClock.
MaxClock == 2

(***************************************************************************)
(* Values.                                                                 *)
(***************************************************************************)
\* LogLevel; the default of the constructor lists all five.
DefaultLevels == {"debug", "info", "warn", "error", "trace"}

\* The config.levels a multiplexer is constructed with ({} is: no config).
LevelConfigs == {{}, {{"error"}}}

\* The entry levels the callers use.
EntryLevels == {"error", "info"}

\* Request contexts: not an object, or an object with tenantId undefined, "" or set.
Contexts ==
    {[isObject |-> FALSE, tenantId |-> {}]}
    \cup {[isObject |-> TRUE, tenantId |-> t] : t \in {{}, {""}, {"tenant1"}}}

\* Timestamps an entry can carry: undefined, or a number (0 included).
Timestamps == {{}, {0}, {1}}

\* Log entries: not an object, or an ILogEntry with a level and an optional ts.
Entries ==
    {[isObject |-> FALSE, level |-> "error", ts |-> {}]}
    \cup {[isObject |-> TRUE, level |-> l, ts |-> t] : l \in EntryLevels, t \in Timestamps}

Root == 0
InnerLeaf(j) == MaxSubs + j
ConnectorIds == 0..(MaxSubs + InnerSubs)

\* Promise states.
None == [kind |-> "none", name |-> "", source |-> "", from |-> 0]
Pending == [kind |-> "pending", name |-> "", source |-> "", from |-> 0]
\* A successful result, produced by connector c.
Ok(c) == [kind |-> "ok", name |-> "", source |-> "", from |-> c]
\* An error with the given name, thrown by class source, instance c.
Err(name, source, c) == [kind |-> "err", name |-> name, source |-> source, from |-> c]

Settled(o) == o.kind \in {"ok", "err"}

NotImplementedError_CLASS_NAME == "NotImplementedError"
MultiLoggingConnector_CLASS_NAME == "MultiLoggingConnector"
LoggingService_CLASS_NAME == "LoggingService"

(***************************************************************************)
(* @gtsc/core helpers as the connectors use them.                          *)
(***************************************************************************)
\* Guards.object: passes when the value is an object.
GuardsObject(v) == v.isObject

\* Guards.stringValue: passes when the value is a string that is not empty.
GuardsStringValue(s) == s # {} /\ s # {""}

\* Guards.string: passes when the value is a string (the empty string included).
GuardsString(s) == s # {}

\* Is.stringValue: a string that is not empty.
IsStringValue(s) == s # {} /\ s # {""}

\* Is.number: a number (0 included).
IsNumber(x) == x # {}

IsErrorName_any(error, name) == error.kind = "err"
\* BaseError.isErrorName(error, name)
IsErrorName(error, name) == error.kind = "err" /\ error.name = name

(***************************************************************************)
(* MultiLoggingConnector                                                   *)
(***************************************************************************)
Multis == DOMAIN loggingConnectors
IsMulti(c) == c \in Multis

\* constructor, line 49: this._levels = options?.config?.levels ?? [all five]
ConstructLevels(config) == IF config = {} THEN DefaultLevels ELSE CHOOSE l \in config : TRUE

\* constructor, lines 50-52: the connectors in the order of loggingConnectorTypes.
\* n is the number of types; p > 0 makes the p-th one a nested multiplexer.
ConstructConnectors(n, p) ==
    IF p = 0
    THEN (Root :> [i \in 1..n |-> i])
    ELSE (Root :> [i \in 1..n |-> i]) @@ (p :> [j \in 1..InnerSubs |-> InnerLeaf(j)])

LevelEnabled_always(m, level) == TRUE
\* log, line 74: this._levels.includes(logEntry.level)
LevelEnabled(m, level) == level \in levels[m]

StampTs_falsy(ts, now) == IF ts = {} \/ ts = {0} THEN {now} ELSE ts
StampTs_always(ts, now) == {now}
\* log, line 75: logEntry.ts ??= Date.now()
StampTs(ts, now) == IF ts = {} THEN {now} ELSE ts

\* log, lines 62-72: the three guards.
LogGuardsPass(ctx, entry) ==
    /\ GuardsObject(ctx)
    /\ GuardsStringValue(ctx.tenantId)
    /\ GuardsObject(entry)

GuardError(source, c) == Err("GuardError", source, c)

\* The state the synchronous part of a call works on.
CallState == [entry |-> logEntry, outcome |-> outcome, calls |-> calls,
              seenTs |-> seenTs, probe |-> probe]

RECURSIVE InvokeLog(_, _, _, _), LogEach(_, _, _, _, _)

\* log, lines 78-80: the map over _loggingConnectors, from index i on.
LogEach(m, i, ctx, s, now) ==
    IF i > Len(loggingConnectors[m]) THEN s
    ELSE LogEach(m, i + 1, ctx, InvokeLog(loggingConnectors[m][i], ctx, s, now), now)

\* c.log(requestContext, logEntry) up to its first await.  A leaf connector
\* returns a pending promise; a multiplexer runs lines 61-81.
InvokeLog(c, ctx, s, now) ==
    LET s1 == [s EXCEPT !.calls[c] = @ + 1, !.seenTs[c] = s.entry.ts]
    IN  IF ~IsMulti(c) THEN [s1 EXCEPT !.outcome[c] = Pending]
        ELSE IF ~LogGuardsPass(ctx, s1.entry)
        THEN [s1 EXCEPT !.outcome[c] = GuardError(MultiLoggingConnector_CLASS_NAME, c)]
        ELSE IF LevelEnabled(c, s1.entry.level)
        THEN LET s2 == [s1 EXCEPT !.entry.ts = StampTs(@, now[c])]
                 s3 == LogEach(c, 1, ctx, s2, now)
             IN  [s3 EXCEPT !.outcome[c] = Pending]
        ELSE [s1 EXCEPT !.outcome[c] = Ok(c)]

AwaitAll(m) ==
    IF \E i \in DOMAIN loggingConnectors[m] : outcome[loggingConnectors[m][i]].kind = "err"
    THEN LET i == CHOOSE i \in DOMAIN loggingConnectors[m] :
                      outcome[loggingConnectors[m][i]].kind = "err"
         IN  outcome[loggingConnectors[m][i]]
    ELSE IF \E i \in DOMAIN loggingConnectors[m] : outcome[loggingConnectors[m][i]].kind = "pending"
    THEN Pending
    ELSE Ok(m)
\* log, line 77: await Promise.allSettled(...): pending until every promise has
\* settled, then fulfilled whatever the promises' outcomes.
AwaitAllSettled(m) ==
    IF \E i \in DOMAIN loggingConnectors[m] : outcome[loggingConnectors[m][i]].kind = "pending"
    THEN Pending
    ELSE Ok(m)

MultiNotImplemented_general(m) ==
    Err("GeneralError", MultiLoggingConnector_CLASS_NAME, m)
\* query, line 145: throw new NotImplementedError(MultiLoggingConnector._CLASS_NAME, "query")
MultiNotImplemented(m) ==
    Err(NotImplementedError_CLASS_NAME, MultiLoggingConnector_CLASS_NAME, m)

NextProbe_skip(i) == i + 2
\* query, line 127: the for..of loop moves to the next connector.
NextProbe(i) == i + 1

RECURSIVE InvokeQuery(_, _), ProbeFrom(_, _, _)

\* query, lines 127-137: the loop entered at index i, up to its await.
ProbeFrom(m, i, s) ==
    IF i > Len(loggingConnectors[m])
    THEN [s EXCEPT !.probe[m] = i, !.outcome[m] = MultiNotImplemented(m)]
    ELSE InvokeQuery(loggingConnectors[m][i], [s EXCEPT !.probe[m] = i, !.outcome[m] = Pending])

\* c.query(...) up to its first await.  A leaf connector returns a pending
\* promise; a multiplexer enters its loop (it has no guards).
InvokeQuery(c, s) ==
    LET s1 == [s EXCEPT !.calls[c] = @ + 1]
    IN  IF ~IsMulti(c) THEN [s1 EXCEPT !.outcome[c] = Pending]
        ELSE ProbeFrom(c, 1, s1)

\* query, lines 137-142: what the loop does when the awaited promise r settles.
AfterProbe(m, r, s) ==
    IF r.kind = "ok" THEN [s EXCEPT !.outcome[m] = r]
    ELSE IF ~IsErrorName(r, NotImplementedError_CLASS_NAME)
    THEN [s EXCEPT !.outcome[m] = r]
    ELSE ProbeFrom(m, NextProbe(s.probe[m]), s)

Idle == op = "none" /\ svcOp = "none"

NoCalls == [c \in ConnectorIds |-> 0]
NoOutcomes == [c \in ConnectorIds |-> None]
NoTs == [c \in ConnectorIds |-> {}]
NoProbes == [c \in ConnectorIds |-> 0]

Apply(s) ==
    /\ logEntry' = s.entry
    /\ outcome' = s.outcome
    /\ calls' = s.calls
    /\ seenTs' = s.seenTs
    /\ probe' = s.probe

Fresh(entry) == [entry |-> entry, outcome |-> NoOutcomes, calls |-> NoCalls,
                 seenTs |-> NoTs, probe |-> NoProbes]

\* A caller calls log on the outer multiplexer.  Date.now() returns t1 in the
\* outer multiplexer and t2 >= t1 in a nested one.
LogAt(ctx, entry, t1, t2) ==
    /\ Idle
    /\ op' = "log"
    /\ requestContext' = ctx
    /\ ts0' = entry.ts
    /\ clock' = t2
    /\ Apply(InvokeLog(Root, ctx, Fresh(entry), [c \in ConnectorIds |-> IF c = Root THEN t1 ELSE t2]))
    /\ UNCHANGED <<loggingConnectors, levels>>
    /\ UNCHANGED svcVars

Log(ctx, entry) ==
    \E t1 \in clock..MaxClock : \E t2 \in t1..MaxClock : LogAt(ctx, entry, t1, t2)

\* A leaf connector's log promise settles.
LeafLogSettles(c, ok) ==
    /\ op = "log"
    /\ ~IsMulti(c)
    /\ outcome[c].kind = "pending"
    /\ outcome' = [outcome EXCEPT ![c] = IF ok THEN Ok(c) ELSE Err("GeneralError", "Leaf", c)]
    /\ UNCHANGED <<loggingConnectors, levels, clock, op, requestContext, logEntry, ts0,
                   calls, seenTs, probe>>
    /\ UNCHANGED svcVars

\* log, line 77-83: the await of a multiplexer returns and log resolves.
LogCompletes(m) ==
    /\ op = "log"
    /\ IsMulti(m)
    /\ outcome[m].kind = "pending"
    /\ AwaitAllSettled(m).kind # "pending"
    /\ outcome' = [outcome EXCEPT ![m] = AwaitAllSettled(m)]
    /\ UNCHANGED <<loggingConnectors, levels, clock, op, requestContext, logEntry, ts0,
                   calls, seenTs, probe>>
    /\ UNCHANGED svcVars

\* A caller calls query on the outer multiplexer.
Query(ctx) ==
    /\ Idle
    /\ op' = "query"
    /\ requestContext' = ctx
    /\ ts0' = {}
    /\ Apply(InvokeQuery(Root, Fresh([isObject |-> FALSE, level |-> "error", ts |-> {}])))
    /\ UNCHANGED <<loggingConnectors, levels, clock>>
    /\ UNCHANGED svcVars

\* A leaf connector's query promise settles: a result, not implemented, or another error.
LeafQuerySettles(c, r) ==
    /\ op = "query"
    /\ ~IsMulti(c)
    /\ outcome[c].kind = "pending"
    /\ outcome' = [outcome EXCEPT ![c] = r]
    /\ UNCHANGED <<loggingConnectors, levels, clock, op, requestContext, logEntry, ts0,
                   calls, seenTs, probe>>
    /\ UNCHANGED svcVars

LeafQueryResults(c) ==
    {Ok(c), Err(NotImplementedError_CLASS_NAME, "Leaf", c), Err("GeneralError", "Leaf", c)}

\* query: the await at line 129 of multiplexer m returns or throws.
ProbeResumes(m) ==
    /\ op = "query"
    /\ IsMulti(m)
    /\ outcome[m].kind = "pending"
    /\ probe[m] \in DOMAIN loggingConnectors[m]
    /\ Settled(outcome[loggingConnectors[m][probe[m]]])
    /\ Apply(AfterProbe(m, outcome[loggingConnectors[m][probe[m]]], CallState))
    /\ UNCHANGED <<loggingConnectors, levels, clock, op, requestContext, ts0>>
    /\ UNCHANGED svcVars

\* The caller's promise has settled; the caller moves on and the call's
\* promises and argument objects are dropped.
Return ==
    /\ op # "none"
    /\ Settled(outcome[Root])
    /\ op' = "none"
    /\ requestContext' = [isObject |-> FALSE, tenantId |-> {}]
    /\ logEntry' = [isObject |-> FALSE, level |-> "error", ts |-> {}]
    /\ ts0' = {}
    /\ outcome' = NoOutcomes
    /\ calls' = NoCalls
    /\ seenTs' = NoTs
    /\ probe' = NoProbes
    /\ UNCHANGED <<loggingConnectors, levels, clock>>
    /\ UNCHANGED svcVars

(***************************************************************************)
(* LoggingService                                                          *)
(***************************************************************************)
NoParams == [level |-> {}, source |-> {}, timeStart |-> {}, timeEnd |-> {},
             cursor |-> {}, pageSize |-> {}]

\* The arguments callers pass to LoggingService.query.
QueryParams ==
    [level : {{}, {"error"}},
     source : {{}, {""}, {"auth"}},
     timeStart : {{}, {0}, {100}},
     timeEnd : {{}, {0}, {200}},
     cursor : {{}, {"cursor1"}},
     pageSize : {{}, {10}}]

\* The value of an optional that is set.
Val(x) == CHOOSE v \in x : TRUE

Clause(property, operator, value) ==
    [property |-> property, operator |-> operator, value |-> value]

\* query, lines 115-121
LevelClause(level) ==
    IF IsStringValue(level) THEN <<Clause("level", "Equals", Val(level))>> ELSE <<>>

\* query, lines 123-129
SourceClause(source) ==
    IF IsStringValue(source) THEN <<Clause("source", "Equals", Val(source))>> ELSE <<>>

TimeStartClause_truthy(timeStart) ==
    IF timeStart # {} /\ timeStart # {0}
    THEN <<Clause("ts", "GreaterThanOrEqual", Val(timeStart))>> ELSE <<>>
\* query, lines 131-137
TimeStartClause(timeStart) ==
    IF IsNumber(timeStart) THEN <<Clause("ts", "GreaterThanOrEqual", Val(timeStart))>> ELSE <<>>

\* query, lines 139-145
TimeEndClause(timeEnd) ==
    IF IsNumber(timeEnd) THEN <<Clause("ts", "LessThanOrEqual", Val(timeEnd))>> ELSE <<>>

\* query, lines 110-145: the condition, with the clauses in the order they are pushed.
BuildCondition(p) ==
    [conditions |-> LevelClause(p.level) \o SourceClause(p.source)
                    \o TimeStartClause(p.timeStart) \o TimeEndClause(p.timeEnd),
     logicalOperator |-> "And"]

\* query, lines 147-159: the arguments of _connectors.logging.query
BuildQueryArgs(p) ==
    [condition |-> BuildCondition(p),
     sortProperties |-> <<[property |-> "ts", sortDirection |-> "Descending"]>>,
     properties |-> {},
     cursor |-> p.cursor,
     pageSize |-> p.pageSize]

\* log, lines 53-59: the three guards (Guards.string on the tenant id).
SvcLogGuardsPass(ctx, entry) ==
    /\ GuardsObject(ctx)
    /\ GuardsString(ctx.tenantId)
    /\ GuardsObject(entry)

\* query, lines 103-108: the two guards (Guards.string on the tenant id).
SvcQueryGuardsPass(ctx) ==
    /\ GuardsObject(ctx)
    /\ GuardsString(ctx.tenantId)

\* LoggingService.log up to its await at line 60.
SvcLog(ctx, entry) ==
    /\ Idle
    /\ svcOp' = "log"
    /\ requestContext' = ctx
    /\ logEntry' = entry
    /\ svcParams' = NoParams
    /\ connectorArgs' = {}
    /\ IF SvcLogGuardsPass(ctx, entry)
       THEN /\ connectorCalls' = 1
            /\ connectorOutcome' = Pending
            /\ svcOutcome' = Pending
       ELSE /\ connectorCalls' = 0
            /\ connectorOutcome' = None
            /\ svcOutcome' = GuardError(LoggingService_CLASS_NAME, Root)
    /\ UNCHANGED multiVars

\* LoggingService.query up to its await at line 147.
SvcQuery(ctx, p) ==
    /\ Idle
    /\ svcOp' = "query"
    /\ requestContext' = ctx
    /\ svcParams' = p
    /\ IF SvcQueryGuardsPass(ctx)
       THEN /\ connectorCalls' = 1
            /\ connectorArgs' = {BuildQueryArgs(p)}
            /\ connectorOutcome' = Pending
            /\ svcOutcome' = Pending
       ELSE /\ connectorCalls' = 0
            /\ connectorArgs' = {}
            /\ connectorOutcome' = None
            /\ svcOutcome' = GuardError(LoggingService_CLASS_NAME, Root)
    /\ UNCHANGED <<logEntry>>
    /\ UNCHANGED multiVars

\* What the wrapped connector's promise can settle to.
ConnectorResults ==
    {Ok(1), Err(NotImplementedError_CLASS_NAME, "Connector", 1),
     Err("GeneralError", "Connector", 1), Err("GuardError", "Connector", 1)}

\* The wrapped connector's promise settles.
ConnectorSettles(r) ==
    /\ svcOp # "none"
    /\ connectorOutcome.kind = "pending"
    /\ connectorOutcome' = r
    /\ UNCHANGED <<svcOp, svcParams, connectorCalls, connectorArgs, svcOutcome,
                   requestContext, logEntry>>
    /\ UNCHANGED multiVars

\* log, lines 60-61 and query, lines 147-166: the await returns or throws; the
\* service returns the connector's result or lets its error through.
SvcResumes ==
    /\ svcOp # "none"
    /\ svcOutcome.kind = "pending"
    /\ Settled(connectorOutcome)
    /\ svcOutcome' = connectorOutcome
    /\ UNCHANGED <<svcOp, svcParams, connectorCalls, connectorArgs, connectorOutcome,
                   requestContext, logEntry>>
    /\ UNCHANGED multiVars

\* The caller's promise has settled; the caller moves on.
SvcReturn ==
    /\ svcOp # "none"
    /\ Settled(svcOutcome)
    /\ svcOp' = "none"
    /\ svcParams' = NoParams
    /\ connectorCalls' = 0
    /\ connectorArgs' = {}
    /\ connectorOutcome' = None
    /\ svcOutcome' = None
    /\ requestContext' = [isObject |-> FALSE, tenantId |-> {}]
    /\ logEntry' = [isObject |-> FALSE, level |-> "error", ts |-> {}]
    /\ UNCHANGED multiVars

SvcIdle ==
    /\ svcOp = "none"
    /\ svcParams = NoParams
    /\ connectorCalls = 0
    /\ connectorArgs = {}
    /\ connectorOutcome = None
    /\ svcOutcome = None

MultiIdle ==
    /\ clock = 1
    /\ op = "none"
    /\ requestContext = [isObject |-> FALSE, tenantId |-> {}]
    /\ logEntry = [isObject |-> FALSE, level |-> "error", ts |-> {}]
    /\ ts0 = {}
    /\ outcome = NoOutcomes
    /\ calls = NoCalls
    /\ seenTs = NoTs
    /\ probe = NoProbes

Init ==
    /\ \E n \in 1..MaxSubs : \E p \in 0..n : loggingConnectors = ConstructConnectors(n, p)
    /\ levels \in [DOMAIN loggingConnectors -> {ConstructLevels(cfg) : cfg \in LevelConfigs}]
    /\ MultiIdle
    /\ SvcIdle

Next ==
    \/ \E ctx \in Contexts, entry \in Entries : Log(ctx, entry)
    \/ \E c \in ConnectorIds, ok \in BOOLEAN : LeafLogSettles(c, ok)
    \/ \E m \in ConnectorIds : LogCompletes(m)
    \/ \E ctx \in Contexts : Query(ctx)
    \/ \E c \in ConnectorIds : \E r \in LeafQueryResults(c) : LeafQuerySettles(c, r)
    \/ \E m \in ConnectorIds : ProbeResumes(m)
    \/ Return

Spec == Init /\ [][Next]_vars

\* The service over one connector.
InitSvc ==
    /\ loggingConnectors = ConstructConnectors(1, 0)
    /\ levels = (Root :> ConstructLevels({}))
    /\ MultiIdle
    /\ SvcIdle

NextSvc ==
    \/ \E ctx \in Contexts, entry \in Entries : SvcLog(ctx, entry)
    \/ \E ctx \in Contexts, p \in QueryParams : SvcQuery(ctx, p)
    \/ \E r \in ConnectorResults : ConnectorSettles(r)
    \/ SvcResumes
    \/ SvcReturn

SpecSvc == InitSvc /\ [][NextSvc]_vars

(***************************************************************************)
(* Properties.                                                             *)
(***************************************************************************)
Subs(m) == loggingConnectors[m]
Sub(m, i) == loggingConnectors[m][i]

\* A context the connectors must accept: an object with a non-empty tenant id.
ValidContext(ctx) == ctx.isObject /\ ctx.tenantId # {} /\ ctx.tenantId # {""}
\* A context object whose tenant id is missing or empty.
NoTenant(ctx) == ctx.isObject /\ ctx.tenantId \in {{}, {""}}

FailedNotImplemented(o) == o.kind = "err" /\ o.name = "NotImplementedError"
FailedOtherwise(o) == o.kind = "err" /\ o.name # "NotImplementedError"
FailedValidation(o) == o.kind = "err" /\ o.name = "GuardError"

\* C1: query probes the sub-connectors one at a time in construction order: a
\* sub-connector is invoked at most once, and only after every earlier one has
\* failed with not-implemented; when sub-connectors 1..k-1 failed with
\* not-implemented and k succeeded, 1..k were each invoked once, none after k
\* is invoked, and the result of query is exactly k's result.
C1_FirstResponderWins ==
    op = "query" =>
        \A m \in Multis :
            /\ \A i \in DOMAIN Subs(m) :
                /\ calls[Sub(m, i)] \in {0, 1}
                /\ calls[Sub(m, i)] = 1 =>
                       \A j \in 1..(i - 1) :
                           calls[Sub(m, j)] = 1 /\ FailedNotImplemented(outcome[Sub(m, j)])
            /\ \A k \in DOMAIN Subs(m) :
                (/\ \A j \in 1..(k - 1) : FailedNotImplemented(outcome[Sub(m, j)])
                 /\ outcome[Sub(m, k)].kind = "ok")
                => /\ \A j \in 1..k : calls[Sub(m, j)] = 1
                   /\ \A j \in DOMAIN Subs(m) : j > k => calls[Sub(m, j)] = 0
                   /\ outcome[m].kind \in {"pending", "ok"}
                   /\ outcome[m].kind = "ok" => outcome[m] = outcome[Sub(m, k)]

\* [A, B, C]: A failed with not-implemented, B succeeded, query returned B's
\* result and C was not invoked.
C1_Witness ==
    /\ op = "query"
    /\ Len(Subs(Root)) = 3
    /\ FailedNotImplemented(outcome[1])
    /\ outcome[2].kind = "ok"
    /\ outcome[Root] = outcome[2]
    /\ calls[1] = 1 /\ calls[2] = 1 /\ calls[3] = 0

\* C2: when the first sub-connector that does not fail with not-implemented
\* fails with another error, query fails with that same error and no later
\* sub-connector is invoked.
C2_OtherErrorPropagates ==
    op = "query" =>
        \A m \in Multis : \A k \in DOMAIN Subs(m) :
            (/\ \A j \in 1..(k - 1) : FailedNotImplemented(outcome[Sub(m, j)])
             /\ FailedOtherwise(outcome[Sub(m, k)]))
            => /\ \A j \in DOMAIN Subs(m) : j > k => calls[Sub(m, j)] = 0
               /\ outcome[m].kind \in {"pending", "err"}
               /\ outcome[m].kind = "err" => outcome[m] = outcome[Sub(m, k)]

\* [A, B, C]: A failed with not-implemented, B with another error, query failed
\* with B's error and C was not invoked.
C2_Witness ==
    /\ op = "query"
    /\ Len(Subs(Root)) = 3
    /\ FailedNotImplemented(outcome[1])
    /\ FailedOtherwise(outcome[2])
    /\ outcome[Root] = outcome[2]
    /\ calls[3] = 0

\* The position of the nested multiplexer m in the outer one.
PosInRoot(m) == CHOOSE i \in DOMAIN Subs(Root) : Sub(Root, i) = m

AllNotImplemented(m) ==
    \A i \in DOMAIN Subs(m) : FailedNotImplemented(outcome[Sub(m, i)])

\* C3: when every sub-connector fails with not-implemented, each has been
\* invoked exactly once and query fails with a not-implemented error of the
\* multiplexer itself, not the error of a sub-connector; when the multiplexer
\* is nested in another one, the outer probe goes on to its next sub-connector
\* and does not fail with the nested multiplexer's error.
C3_AllNotImplemented ==
    op = "query" =>
        \A m \in Multis :
            AllNotImplemented(m) =>
                /\ \A i \in DOMAIN Subs(m) : calls[Sub(m, i)] = 1
                /\ outcome[m].kind \in {"pending", "err"}
                /\ outcome[m].kind = "err" =>
                    /\ FailedNotImplemented(outcome[m])
                    /\ outcome[m].source = "MultiLoggingConnector"
                    /\ outcome[m].from = m
                    /\ \A i \in DOMAIN Subs(m) : outcome[m] # outcome[Sub(m, i)]
                /\ (m # Root /\ Settled(outcome[Root])
                    /\ \A j \in 1..(PosInRoot(m) - 1) : FailedNotImplemented(outcome[Sub(Root, j)]))
                   => /\ outcome[Root] # outcome[m]
                      /\ PosInRoot(m) < Len(Subs(Root)) => calls[Sub(Root, PosInRoot(m) + 1)] = 1

\* A nested multiplexer in first position failed with its own not-implemented
\* error, the outer probe went on to the second sub-connector, and in the end
\* the outer multiplexer failed with its own not-implemented error.
C3_Witness ==
    /\ op = "query"
    /\ 1 \in Multis
    /\ Len(Subs(Root)) >= 2
    /\ AllNotImplemented(1)
    /\ outcome[1] = Err("NotImplementedError", "MultiLoggingConnector", 1)
    /\ calls[2] = 1
    /\ AllNotImplemented(Root)
    /\ outcome[Root] = Err("NotImplementedError", "MultiLoggingConnector", Root)

\* C4: log with a valid context and an entry whose level is enabled invokes log
\* exactly once on every sub-connector, whatever the others did; it resolves
\* only when every sub-connector's promise has settled, and it never rejects.
C4_FanOut ==
    (op = "log" /\ ValidContext(requestContext) /\ logEntry.isObject) =>
        \A m \in Multis :
            (calls[m] = 1 /\ logEntry.level \in levels[m]) =>
                /\ \A i \in DOMAIN Subs(m) : calls[Sub(m, i)] = 1
                /\ outcome[m].kind \in {"pending", "ok"}
                /\ outcome[m].kind = "ok" => \A i \in DOMAIN Subs(m) : Settled(outcome[Sub(m, i)])
                /\ outcome[m].kind = "pending" =>
                       \E i \in DOMAIN Subs(m) : outcome[Sub(m, i)].kind = "pending"
                       \/ ENABLED LogCompletes(m)

\* log resolved although one sub-connector failed and another succeeded.
C4_Witness ==
    /\ op = "log"
    /\ ValidContext(requestContext)
    /\ outcome[Root].kind = "ok"
    /\ \E i, j \in DOMAIN Subs(Root) :
        /\ outcome[Sub(Root, i)].kind = "err"
        /\ outcome[Sub(Root, j)].kind = "ok"

\* C5: for an entry whose level is not in the multiplexer's enabled set, no
\* sub-connector's log is invoked and the call resolves without error.
C5_DisabledLevelDiscarded ==
    (op = "log" /\ ValidContext(requestContext) /\ logEntry.isObject) =>
        \A m \in Multis :
            (calls[m] = 1 /\ logEntry.level \notin levels[m]) =>
                /\ \A i \in DOMAIN Subs(m) : calls[Sub(m, i)] = 0
                /\ outcome[m] = Ok(m)

\* An entry of a disabled level was logged and discarded.
C5_Witness ==
    /\ op = "log"
    /\ ValidContext(requestContext)
    /\ logEntry.isObject
    /\ logEntry.level \notin levels[Root]
    /\ outcome[Root].kind = "ok"
    /\ calls[1] = 0

\* C6 as claimed: after log completes with a valid context, for any level of
\* the entry, an entry that had no timestamp carries one, and a timestamp that
\* was present is unchanged.
C6_TimestampAnyLevel ==
    (op = "log" /\ ValidContext(requestContext) /\ logEntry.isObject
     /\ outcome[Root].kind = "ok")
    => /\ logEntry.ts # {}
       /\ ts0 # {} => logEntry.ts = ts0

\* C6 as amended: after log completes with a valid context, an entry that had
\* no timestamp and whose level is enabled carries one, and a timestamp that
\* was present is unchanged, for any level.
C6_TimestampEnabledLevel ==
    (op = "log" /\ ValidContext(requestContext) /\ logEntry.isObject
     /\ outcome[Root].kind = "ok")
    => /\ (ts0 = {} /\ logEntry.level \in levels[Root]) => logEntry.ts # {}
       /\ ts0 # {} => logEntry.ts = ts0

\* An entry without a timestamp was logged at an enabled level and got one.
C6_Witness ==
    /\ op = "log"
    /\ ValidContext(requestContext)
    /\ outcome[Root].kind = "ok"
    /\ logEntry.level \in levels[Root]
    /\ ts0 = {}
    /\ logEntry.ts # {}

\* C7 as claimed: log and query with a context whose tenant id is missing or
\* empty fail with a validation error before any sub-connector is invoked.
C7_TenantValidated ==
    (op \in {"log", "query"} /\ NoTenant(requestContext)) =>
        /\ \A c \in ConnectorIds : c # Root => calls[c] = 0
        /\ FailedValidation(outcome[Root])

\* C10: every entry handed to a sub-connector's log carries a timestamp; all
\* sub-connectors of one call, nested ones included, see the same value, which
\* is the caller's timestamp when the entry had one, and the entry still
\* carries that value afterwards.
C10_TimestampStable ==
    op = "log" =>
        \A c \in ConnectorIds :
            (c # Root /\ calls[c] > 0) =>
                /\ seenTs[c] # {}
                /\ seenTs[c] = logEntry.ts
                /\ ts0 # {} => seenTs[c] = ts0
                /\ \A d \in ConnectorIds : (d # Root /\ calls[d] > 0) => seenTs[d] = seenTs[c]

\* An entry without a timestamp went through two multiplexers to a leaf.
C10_Witness ==
    /\ op = "log"
    /\ ts0 = {}
    /\ \E m \in Multis :
        /\ m # Root
        /\ m > 1
        /\ calls[1] = 1
        /\ calls[Sub(m, 1)] = 1
        /\ seenTs[Sub(m, 1)] # {}
        /\ seenTs[1] = seenTs[Sub(m, 1)]

\* C8 as claimed: the service's log and query with a context whose tenant id is
\* missing or the empty string fail with a validation error and never invoke
\* the wrapped connector.
C8_ServiceTenantValidated ==
    (svcOp \in {"log", "query"} /\ NoTenant(requestContext)) =>
        /\ connectorCalls = 0
        /\ FailedValidation(svcOutcome)

\* The clauses of the claim: one per parameter that counts as supplied, in the
\* order level, source, timeStart, timeEnd.
ExpectedClauses(hasLevel, hasSource, hasStart, hasEnd, p) ==
    (IF hasLevel THEN <<[property |-> "level", operator |-> "Equals", value |-> Val(p.level)]>>
     ELSE <<>>)
    \o (IF hasSource THEN <<[property |-> "source", operator |-> "Equals", value |-> Val(p.source)]>>
        ELSE <<>>)
    \o (IF hasStart
        THEN <<[property |-> "ts", operator |-> "GreaterThanOrEqual", value |-> Val(p.timeStart)]>>
        ELSE <<>>)
    \o (IF hasEnd
        THEN <<[property |-> "ts", operator |-> "LessThanOrEqual", value |-> Val(p.timeEnd)]>>
        ELSE <<>>)

\* What every query of the service passes on, whatever the clauses.
PassesOn(args, p) ==
    /\ args.condition.logicalOperator = "And"
    /\ args.sortProperties = <<[property |-> "ts", sortDirection |-> "Descending"]>>
    /\ args.properties = {}
    /\ args.cursor = p.cursor
    /\ args.pageSize = p.pageSize

\* C9 as claimed: the connector receives one AND condition with exactly one
\* clause per supplied parameter, in the order level, source, timeStart,
\* timeEnd, sorted by ts descending, no projection, cursor and pageSize as given.
C9_ClausePerSupplied ==
    (svcOp = "query" /\ connectorCalls = 1) =>
        \A args \in connectorArgs :
            /\ PassesOn(args, svcParams)
            /\ args.condition.conditions =
                   ExpectedClauses(svcParams.level # {}, svcParams.source # {},
                                   svcParams.timeStart # {}, svcParams.timeEnd # {}, svcParams)

\* C9 as amended: a level or source counts as supplied when it is a non-empty
\* string (an empty string gets no clause), a time bound when it is a number
\* (0 included).
C9_ClausePerNonEmpty ==
    (svcOp = "query" /\ connectorCalls = 1) =>
        /\ connectorArgs # {}
        /\ \A args \in connectorArgs :
            /\ PassesOn(args, svcParams)
            /\ args.condition.conditions =
                   ExpectedClauses(svcParams.level \notin {{}, {""}},
                                   svcParams.source \notin {{}, {""}},
                                   svcParams.timeStart # {}, svcParams.timeEnd # {}, svcParams)

\* level, source and both time bounds supplied, the lower bound being 0: four clauses.
C9_Witness ==
    /\ svcOp = "query"
    /\ connectorCalls = 1
    /\ svcParams.level = {"error"}
    /\ svcParams.source = {"auth"}
    /\ svcParams.timeStart = {0}
    /\ svcParams.timeEnd = {200}
    /\ \E args \in connectorArgs : Len(args.condition.conditions) = 4

====
